---- MODULE Spec2Model ----
(***************************************************************************)
(* Model of docs/schemas/examples/agentforge_example.py: the population of *)
(* a knowledge graph with a software project, its features, its components *)
(* and the internal dependencies between the components.                   *)
(*                                                                         *)
(* The program is one asyncio task.  It runs from one await to the next    *)
(* without interruption, so a step of the model is either one statement of *)
(* the task (a loop test, a call being issued) or the graph client         *)
(* answering the call the task is suspended on.  The position (fn, i, j,   *)
(* site) names the statement the task executes next, once the call it      *)
(* awaits has returned.                                                    *)
(***************************************************************************)
EXTENDS Integers, Sequences, FiniteSets, TLC

VARIABLES
    project,        \* the SoftwareProject given to populate_project
    features,       \* the list[Feature] given to populate_features
    components,     \* the list[Component] given to the last two functions
    fn,             \* the function of the population sequence that is running
    i,              \* index of the item of the running for-loop (1-based)
    j,              \* index of the dependency of the inner for-loop (1-based)
    site,           \* the await of the loop body that comes next
    outstanding,    \* calls issued to the graph client and not yet answered
    calls,          \* every call issued so far, in order of issue
    entities,       \* the graph store: name -> node
    relationships,  \* the graph store: the edges, in order of creation
    failed          \* a call has raised

vars == <<project, features, components, fn, i, j, site,
          outstanding, calls, entities, relationships, failed>>

inputs == <<project, features, components>>

(***************************************************************************)
(* Bounds and input domains.                                               *)
(***************************************************************************)
\* Features, components and dependency strings of one input, all together.
MaxItems == 4

None == "None"

ProjectNames == {"P", "A"}
FeatureNames == {"F", "A"}
ComponentNames == {"A", "B"}
\* "a" differs from the component name "A" by case only and names no component.
DependencyNames == {"A", "B", "a"}
Descriptions == {None, "text"}

SeqsUpTo(S, n) == UNION {[1..k -> S] : k \in 0..n}

SoftwareProject ==
    [name : ProjectNames, description : Descriptions]

Feature ==
    [name : FeatureNames, description : Descriptions]

Component(n) ==
    [name : ComponentNames, dependencies : SeqsUpTo(DependencyNames, n),
     description : Descriptions]

\* The component lists of at most b components and dependency strings.
RECURSIVE ComponentLists(_)
ComponentLists(b) ==
    IF b <= 0 THEN {<<>>}
    ELSE {<<>>} \cup
         UNION {{<<c>> \o rest :
                    rest \in ComponentLists(b - 1 - Len(c.dependencies))} :
                c \in Component(b - 1)}

(***************************************************************************)
(* The records' serialisation and the calls made to the graph client.      *)
(***************************************************************************)
\* The Optional fields of the records (description stands for all of them:
\* repo_url, language, priority, path, ...).
OptionalFields == {"description"}

\* BaseModel.model_dump(exclude_none=True): the fields that are not None.
model_dump(record) ==
    LET kept == {f \in DOMAIN record :
                    ~(f \in OptionalFields /\ record[f] = None)}
    IN  [f \in kept |-> record[f]]

\* The call the task issues next gets the next number of the run.
Call(op, args) ==
    [id |-> Len(calls) + 1, by |-> fn, op |-> op, args |-> args]

\* populate_project: graphiti.add_entity(...)
ProjectEntity(p) ==
    Call("add_entity",
         [name |-> p.name, entity_type |-> "software_project",
          summary |-> p.description, metadata |-> model_dump(p)])

\* Bug: the feature is registered under the project's name.
FeatureEntityUnderProjectName(feature) ==
    Call("add_entity",
         [name |-> project.name, entity_type |-> "feature",
          summary |-> feature.description, metadata |-> model_dump(feature)])

\* populate_features: graphiti.add_entity(...)
FeatureEntity(feature) ==
    Call("add_entity",
         [name |-> feature.name, entity_type |-> "feature",
          summary |-> feature.description, metadata |-> model_dump(feature)])

\* Bug: source and target of the has_feature edge are swapped.
HasFeatureSwapped(project_name, feature) ==
    Call("add_relationship",
         [source_entity |-> feature.name, target_entity |-> project_name,
          relationship_type |-> "has_feature",
          fact |-> <<project_name, "includes the", feature.name, "feature">>])

\* populate_features: graphiti.add_relationship(...)
HasFeature(project_name, feature) ==
    Call("add_relationship",
         [source_entity |-> project_name, target_entity |-> feature.name,
          relationship_type |-> "has_feature",
          fact |-> <<project_name, "includes the", feature.name, "feature">>])

\* populate_components: graphiti.add_entity(...)
ComponentEntity(component) ==
    Call("add_entity",
         [name |-> component.name, entity_type |-> "component",
          summary |-> component.description,
          metadata |-> model_dump(component)])

\* populate_components: graphiti.add_relationship(...)
HasComponent(project_name, component) ==
    Call("add_relationship",
         [source_entity |-> project_name, target_entity |-> component.name,
          relationship_type |-> "has_component",
          fact |-> <<project_name, "contains the", component.name,
                     "component">>])

\* Bug: the call is pasted from populate_components with its type.
DependsOnPasted(component, dep) ==
    Call("add_relationship",
         [source_entity |-> component.name, target_entity |-> dep,
          relationship_type |-> "has_component",
          fact |-> <<component.name, "depends on", dep>>])

\* add_component_dependencies: graphiti.add_relationship(...)
DependsOn(component, dep) ==
    Call("add_relationship",
         [source_entity |-> component.name, target_entity |-> dep,
          relationship_type |-> "depends_on",
          fact |-> <<component.name, "depends on", dep>>])

\* component_names = {c.name for c in components}
component_names == {components[k].name : k \in DOMAIN components}

Reverse(s) == [k \in 1..Len(s) |-> s[Len(s) + 1 - k]]

\* The first occurrence of every element of s, in order.
Distinct(s) ==
    LET first == {k \in 1..Len(s) : \A m \in 1..(k - 1) : s[m] # s[k]}
        F[k \in 0..Len(s)] ==
            IF k = 0 THEN <<>>
            ELSE IF k \in first THEN Append(F[k - 1], s[k]) ELSE F[k - 1]
    IN  F[Len(s)]

\* Bug: the dependencies are visited last to first.
DependenciesReversed(component) == Reverse(component.dependencies)

\* Bug: a dependency listed twice is visited once.
DependenciesDistinct(component) == Distinct(component.dependencies)

\* for dep in component.dependencies: the strings in list order.
Dependencies(component) == component.dependencies

\* str.lower on the names of the model.
lower(name) ==
    CASE name = "A" -> "a"
      [] name = "B" -> "b"
      [] name = "F" -> "f"
      [] name = "P" -> "p"
      [] OTHER -> name

\* Bug: the names are compared ignoring case.
IsInternalIgnoringCase(component, dep) ==
    lower(dep) \in {lower(n) : n \in component_names}

\* Bug: a component's own name is filtered out.
IsInternalNotSelf(component, dep) ==
    dep \in component_names /\ dep # component.name

\* if dep in component_names: str equality, which is case-sensitive.
IsInternal(component, dep) == dep \in component_names

(***************************************************************************)
(* Control: the population sequence of main, awaits and exceptions.        *)
(***************************************************************************)
\* Bug: the features are populated before the project.
PopulationSequenceFeaturesFirst ==
    <<"populate_features", "populate_project", "populate_components",
      "add_component_dependencies">>

\* main's example population sequence.
PopulationSequence ==
    <<"populate_project", "populate_features", "populate_components",
      "add_component_dependencies">>

\* The function main awaits after f has returned.
After(f) ==
    LET k == CHOOSE n \in DOMAIN PopulationSequence : PopulationSequence[n] = f
    IN  IF k < Len(PopulationSequence) THEN PopulationSequence[k + 1]
        ELSE "done"

\* Bug: the calls are started without being awaited.
NotAwaited == TRUE

\* Every call is awaited: the task does nothing while a call is outstanding.
Awaited == outstanding = {}

\* Bug: the exception is caught and the run goes on.
RaiseSwallowed(f) == f

\* No try/except anywhere: an exception of a call ends the run.
Raise(f) == "raised"

\* The task issues call c and suspends on it.
Issue(c) ==
    /\ outstanding' = outstanding \cup {c}
    /\ calls' = Append(calls, c)

Running(f) == fn = f /\ Awaited

Init ==
    /\ project \in SoftwareProject
    /\ features \in SeqsUpTo(Feature, MaxItems)
    /\ components \in ComponentLists(MaxItems - Len(features))
    /\ fn = PopulationSequence[1]
    /\ i = 1
    /\ j = 1
    /\ site = "add_entity"
    /\ outstanding = {}
    /\ calls = <<>>
    /\ entities = <<>>
    /\ relationships = <<>>
    /\ failed = FALSE

populate_project ==
    /\ Running("populate_project")
    /\ Issue(ProjectEntity(project))
    /\ fn' = After(fn)
    /\ UNCHANGED <<inputs, i, j, site, entities, relationships, failed>>

populate_features ==
    /\ Running("populate_features")
    /\ \/ /\ i <= Len(features)
          /\ site = "add_entity"
          /\ Issue(FeatureEntity(features[i]))
          /\ site' = "add_relationship"
          /\ UNCHANGED <<fn, i>>
       \/ /\ i <= Len(features)
          /\ site = "add_relationship"
          /\ Issue(HasFeature(project.name, features[i]))
          /\ site' = "add_entity"
          /\ i' = i + 1
          /\ UNCHANGED fn
       \/ /\ i > Len(features)
          /\ fn' = After(fn)
          /\ i' = 1
          /\ UNCHANGED <<site, outstanding, calls>>
    /\ UNCHANGED <<inputs, j, entities, relationships, failed>>

populate_components ==
    /\ Running("populate_components")
    /\ \/ /\ i <= Len(components)
          /\ site = "add_entity"
          /\ Issue(ComponentEntity(components[i]))
          /\ site' = "add_relationship"
          /\ UNCHANGED <<fn, i>>
       \/ /\ i <= Len(components)
          /\ site = "add_relationship"
          /\ Issue(HasComponent(project.name, components[i]))
          /\ site' = "add_entity"
          /\ i' = i + 1
          /\ UNCHANGED fn
       \/ /\ i > Len(components)
          /\ fn' = After(fn)
          /\ i' = 1
          /\ UNCHANGED <<site, outstanding, calls>>
    /\ UNCHANGED <<inputs, j, entities, relationships, failed>>

add_component_dependencies ==
    /\ Running("add_component_dependencies")
    /\ \/ /\ i <= Len(components)
          /\ j <= Len(Dependencies(components[i]))
          /\ IsInternal(components[i], Dependencies(components[i])[j])
          /\ Issue(DependsOn(components[i], Dependencies(components[i])[j]))
          /\ j' = j + 1
          /\ UNCHANGED <<fn, i>>
       \/ /\ i <= Len(components)
          /\ j <= Len(Dependencies(components[i]))
          /\ ~IsInternal(components[i], Dependencies(components[i])[j])
          /\ j' = j + 1
          /\ UNCHANGED <<fn, i, outstanding, calls>>
       \/ /\ i <= Len(components)
          /\ j > Len(Dependencies(components[i]))
          /\ i' = i + 1
          /\ j' = 1
          /\ UNCHANGED <<fn, outstanding, calls>>
       \/ /\ i > Len(components)
          /\ fn' = After(fn)
          /\ UNCHANGED <<i, j, outstanding, calls>>
    /\ UNCHANGED <<inputs, site, entities, relationships, failed>>

(***************************************************************************)
(* The graph client (external).                                            *)
(***************************************************************************)
\* add_entity registers or upserts the node named args.name.
add_entity(args) ==
    /\ entities' =
          [n \in DOMAIN entities \cup {args.name} |->
              IF n = args.name
              THEN [entity_type |-> args.entity_type,
                    summary |-> args.summary, metadata |-> args.metadata]
              ELSE entities[n]]
    /\ UNCHANGED relationships

\* add_relationship registers a directed, typed edge.
add_relationship(args) ==
    /\ relationships' = Append(relationships, args)
    /\ UNCHANGED entities

\* The client answers a call: the awaited coroutine returns.
Return ==
    \E c \in outstanding :
        /\ outstanding' = outstanding \ {c}
        /\ IF c.op = "add_entity" THEN add_entity(c.args)
           ELSE add_relationship(c.args)
        /\ UNCHANGED <<inputs, fn, i, j, site, calls, failed>>

\* The client fails a call: the awaited coroutine raises.
Fail ==
    \E c \in outstanding :
        /\ outstanding' = outstanding \ {c}
        /\ failed' = TRUE
        /\ fn' = Raise(fn)
        /\ UNCHANGED <<inputs, i, j, site, calls, entities, relationships>>

Next ==
    \/ populate_project
    \/ populate_features
    \/ populate_components
    \/ add_component_dependencies
    \/ Return
    \/ Fail

Spec == Init /\ [][Next]_vars

(***************************************************************************)
(* Vocabulary of the properties.                                           *)
(***************************************************************************)
Range(s) == {s[k] : k \in DOMAIN s}

\* The run has returned from the whole population sequence.
Finished == fn = "done" /\ ~failed

IsRelationship(c, type) ==
    c.op = "add_relationship" /\ c.args.relationship_type = type

\* The depends_on relationships issued so far, as (source, target) pairs.
Edges ==
    LET issued == SelectSeq(calls, LAMBDA c : IsRelationship(c, "depends_on"))
    IN  [k \in 1..Len(issued) |->
            <<issued[k].args.source_entity, issued[k].args.target_entity>>]

Names(cs) == {cs[k].name : k \in DOMAIN cs}

\* The number of indices of s that hold x.
Occurrences(s, x) == Cardinality({k \in DOMAIN s : s[k] = x})

\* The internal edges of component c of the list cs, in list order.
InternalEdges(cs, c) ==
    LET kept == SelectSeq(c.dependencies, LAMBDA d : d \in Names(cs))
    IN  [k \in 1..Len(kept) |-> <<c.name, kept[k]>>]

\* The concatenation, component by component, of the internal edges.
Projection(cs) ==
    LET P[n \in 0..Len(cs)] ==
            IF n = 0 THEN <<>> ELSE P[n - 1] \o InternalEdges(cs, cs[n])
    IN  P[Len(cs)]

IsPrefix(s, t) == Len(s) <= Len(t) /\ SubSeq(t, 1, Len(s)) = s

(***************************************************************************)
(* C1: add_component_dependencies issues a depends_on relationship         *)
(* (a.name, d) if and only if a is a component of the list, d is one of    *)
(* a's dependencies and d equals, character for character, the name of a   *)
(* component of the list.  While the function runs, every relationship it  *)
(* has issued is such a pair; once it has returned, every such pair has    *)
(* been issued.  A dependency naming no component and an empty list give   *)
(* no relationship.                                                        *)
(***************************************************************************)
C1_InternalPairs ==
    {<<components[a].name, d>> :
        <<a, d>> \in {p \in (DOMAIN components) \X Names(components) :
                        p[2] \in Range(components[p[1]].dependencies)}}

C1_EdgesAreTheInternalPairs ==
    /\ Range(Edges) \subseteq C1_InternalPairs
    /\ Finished => Range(Edges) = C1_InternalPairs

\* A finished run over a component with one dependency that names a
\* component and another that names none, "a" beside the component "A".
C1_Witness ==
    /\ Finished
    /\ \E a \in DOMAIN components :
          /\ "A" \in Range(components[a].dependencies)
          /\ "a" \in Range(components[a].dependencies)
          /\ <<components[a].name, "A">> \in Range(Edges)

(***************************************************************************)
(* C2: the depends_on relationships are issued in the order of the         *)
(* components, and for one component in the order of its dependencies      *)
(* list: what has been issued is always a prefix of the concatenation of   *)
(* the components' dependencies filtered to internal names, and all of it  *)
(* once the function has returned.  The sequence is a function of the      *)
(* input, so two runs on one input issue the same sequence.                *)
(***************************************************************************)
C2_EdgesInInputOrder ==
    /\ IsPrefix(Edges, Projection(components))
    /\ Finished => Edges = Projection(components)

\* A finished run that issued two different edges one after the other.
C2_Witness ==
    /\ Finished
    /\ \E k \in 1..(Len(Edges) - 1) : Edges[k] # Edges[k + 1]

(***************************************************************************)
(* C3, as claimed: for every component a and every internal name d, the    *)
(* number of relationships (a.name, d) issued equals the number of         *)
(* occurrences of d in a.dependencies.                                     *)
(***************************************************************************)
C3_CountPerComponent ==
    Finished =>
        \A a \in DOMAIN components : \A d \in Names(components) :
            Occurrences(Edges, <<components[a].name, d>>)
                = Occurrences(components[a].dependencies, d)

\* The occurrences of d in the dependencies of the components named n.
C3_OccurrencesUnder(n, d) ==
    LET S[k \in 0..Len(components)] ==
            IF k = 0 THEN 0
            ELSE S[k - 1] + (IF components[k].name = n
                             THEN Occurrences(components[k].dependencies, d)
                             ELSE 0)
    IN  S[Len(components)]

(***************************************************************************)
(* C3, amended: no deduplication.  For every component name n and every    *)
(* internal name d, the number of relationships (n, d) issued equals the   *)
(* number of occurrences of d in the dependencies lists of the components  *)
(* named n, which is the number of occurrences in a.dependencies when a is *)
(* the only component of that name.                                        *)
(***************************************************************************)
C3_CountPerName ==
    Finished =>
        \A n \in Names(components) : \A d \in Names(components) :
            /\ Occurrences(Edges, <<n, d>>) = C3_OccurrencesUnder(n, d)
            /\ \A a \in DOMAIN components :
                  (/\ components[a].name = n
                   /\ \A b \in DOMAIN components :
                         components[b].name = n => b = a)
                  => Occurrences(Edges, <<n, d>>)
                        = Occurrences(components[a].dependencies, d)

\* A finished run over a component that lists an internal name twice.
C3_Witness ==
    /\ Finished
    /\ \E a \in DOMAIN components : \E d \in Names(components) :
          /\ Occurrences(components[a].dependencies, d) = 2
          /\ Occurrences(Edges, <<components[a].name, d>>) >= 2

(***************************************************************************)
(* C4: self-loops are not filtered.  Once the function has returned, every *)
(* component that lists its own name has a relationship from its name to   *)
(* its name.                                                               *)
(***************************************************************************)
C4_SelfLoopIssued ==
    Finished =>
        \A a \in DOMAIN components :
            components[a].name \in Range(components[a].dependencies)
            => <<components[a].name, components[a].name>> \in Range(Edges)

\* A finished run over a component that lists its own name.
C4_Witness ==
    /\ Finished
    /\ \E a \in DOMAIN components :
          components[a].name \in Range(components[a].dependencies)
    /\ \E k \in DOMAIN Edges : Edges[k][1] = Edges[k][2]

(***************************************************************************)
(* C5: entities precede the relationships that reference them.  Every      *)
(* add_relationship call of the run comes after an add_entity call for its *)
(* source name and after one for its target name, and those calls had      *)
(* returned, without raising, before it was issued.                        *)
(***************************************************************************)
C5_RegisteredBefore(k, name) ==
    \E m \in 1..(k - 1) :
        /\ calls[m].op = "add_entity"
        /\ calls[m].args.name = name
        /\ calls[m] \notin outstanding
        /\ name \in DOMAIN entities

C5_EntitiesPrecedeRelationships ==
    \A k \in DOMAIN calls :
        calls[k].op = "add_relationship"
        => /\ C5_RegisteredBefore(k, calls[k].args.source_entity)
           /\ C5_RegisteredBefore(k, calls[k].args.target_entity)

\* A has_feature, a has_component and a depends_on call have been issued.
C5_Witness ==
    \A type \in {"has_feature", "has_component", "depends_on"} :
        \E k \in DOMAIN calls : IsRelationship(calls[k], type)

(***************************************************************************)
(* C6: the calls are issued one at a time.  At most one call is            *)
(* outstanding in every state, and a call is issued only when none is.     *)
(***************************************************************************)
C6_OneCallAtATime ==
    /\ [](Cardinality(outstanding) <= 1)
    /\ [][calls' # calls => outstanding = {}]_vars

\* A call is outstanding after earlier calls of the run have returned.
C6_Witness ==
    /\ Cardinality(outstanding) = 1
    /\ Len(calls) >= 3
    /\ Len(relationships) >= 1

(***************************************************************************)
(* C7: a failing call stops the run and nothing is rolled back.  The step  *)
(* in which a call fails and every later step issue no call, and leave the *)
(* entities and the relationships of the store as they were.               *)
(***************************************************************************)
C7_FailureHaltsWithoutRollback ==
    [][failed' => UNCHANGED <<calls, entities, relationships>>]_vars

\* A call has failed after an entity and a relationship were written and
\* before the last call of the run.
C7_Witness ==
    /\ failed
    /\ DOMAIN entities # {}
    /\ relationships # <<>>
    /\ Len(calls) < 1 + 2 * Len(features) + 2 * Len(components)
                    + Len(Projection(components))

(***************************************************************************)
(* C8, as claimed: add_component_dependencies performs no external call    *)
(* and leaves the graph store unchanged.                                   *)
(***************************************************************************)
C8_NoExternalCall ==
    /\ \A k \in DOMAIN calls : calls[k].by # "add_component_dependencies"
    /\ \A k \in DOMAIN relationships :
          relationships[k].relationship_type # "depends_on"

(***************************************************************************)
(* C8, amended: add_component_dependencies is a coroutine that performs    *)
(* external calls.  Every call it issues is an awaited add_relationship of *)
(* type depends_on, whose return adds that one relationship to the store;  *)
(* it issues no add_entity call, adds or changes no entity, and leaves its *)
(* input components unchanged.                                             *)
(***************************************************************************)
C8_OnlyDependsOnRelationships ==
    /\ [](\A k \in DOMAIN calls :
            calls[k].by = "add_component_dependencies"
            => IsRelationship(calls[k], "depends_on"))
    /\ [][/\ components' = components
          /\ \A c \in outstanding \ outstanding' :
                (c.by = "add_component_dependencies" /\ ~failed')
                => /\ entities' = entities
                   /\ relationships' = Append(relationships, c.args)
                   /\ c.args.relationship_type = "depends_on"]_vars

\* The store holds a depends_on relationship written by the function.
C8_Witness ==
    /\ Finished
    /\ \E k \in DOMAIN calls : calls[k].by = "add_component_dependencies"
    /\ \E k \in DOMAIN relationships :
          relationships[k].relationship_type = "depends_on"

(***************************************************************************)
(* C9, as claimed: once created, an entity is never deleted and its type,  *)
(* summary and metadata never change, whatever the input.                  *)
(***************************************************************************)
C9_AppendOnly ==
    [][\A n \in DOMAIN entities :
          n \in DOMAIN entities' /\ entities'[n] = entities[n]]_vars

\* How many of the project, the features and the components are named n.
C9_NameCount(n) ==
    (IF project.name = n THEN 1 ELSE 0)
    + Cardinality({k \in DOMAIN features : features[k].name = n})
    + Cardinality({k \in DOMAIN components : components[k].name = n})

(***************************************************************************)
(* C9, amended: no step of the run deletes an entity, and an entity's      *)
(* type, summary or metadata change only when a later add_entity call for  *)
(* the same name returns (an upsert), which takes a name that occurs more  *)
(* than once among the project, the features and the components.  When the *)
(* names are pairwise distinct the store is append-only.                   *)
(***************************************************************************)
C9_ChangedOnlyByUpsertOfRepeatedName ==
    [][\A n \in DOMAIN entities :
          /\ n \in DOMAIN entities'
          /\ entities'[n] # entities[n]
             => /\ C9_NameCount(n) > 1
                /\ \E c \in outstanding \ outstanding' :
                      c.op = "add_entity" /\ c.args.name = n]_vars

\* The entity named like the project is no longer a software_project.
C9_Witness ==
    /\ project.name \in DOMAIN entities
    /\ entities[project.name].entity_type # "software_project"
    /\ C9_NameCount(project.name) > 1

(***************************************************************************)
(* C10: when no call fails, populate_features over n features issues       *)
(* exactly 2n calls in input order: for each feature an add_entity for it, *)
(* then one has_feature relationship from the project's name to the        *)
(* feature's name; populate_components does the same with has_component.   *)
(***************************************************************************)
\* What the claim compares of a call: the operation and the names.
C10_Shape(c) ==
    IF c.op = "add_entity"
    THEN <<c.op, c.args.entity_type, c.args.name>>
    ELSE <<c.op, c.args.relationship_type, c.args.source_entity,
           c.args.target_entity>>

C10_IssuedBy(f) ==
    LET issued == SelectSeq(calls, LAMBDA c : c.by = f)
    IN  [k \in 1..Len(issued) |-> C10_Shape(issued[k])]

C10_Expected(items, entity_type, relationship_type) ==
    [k \in 1..(2 * Len(items)) |->
        IF k % 2 = 1
        THEN <<"add_entity", entity_type, items[(k + 1) \div 2].name>>
        ELSE <<"add_relationship", relationship_type, project.name,
               items[k \div 2].name>>]

C10_TwoCallsPerItemInOrder ==
    /\ (~failed /\ fn \in {"populate_components",
                           "add_component_dependencies", "done"})
       => C10_IssuedBy("populate_features")
             = C10_Expected(features, "feature", "has_feature")
    /\ (~failed /\ fn \in {"add_component_dependencies", "done"})
       => C10_IssuedBy("populate_components")
             = C10_Expected(components, "component", "has_component")

\* A finished run over two features and two components of different names.
C10_Witness ==
    /\ Finished
    /\ Len(features) = 2 /\ features[1].name # features[2].name
    /\ Len(components) = 2 /\ components[1].name # components[2].name
    /\ Len(calls) >= 9

====
